---- MODULE Spec2Model ----
(***************************************************************************)
(* A model of bux-mariadb-client (src/src/oo_mariadb.cpp,                  *)
(* src/include/bux/oo_mariadb.h): the self-healing connection C_MySQL,     *)
(* the prepared statement C_MySqlStmt with its binding array and long-data *)
(* transfer, and the retry loops of query() and execNoThrow().             *)
(*                                                                         *)
(* The native client library and the server are the environment: every    *)
(* native call's outcome is a nondeterministic input of the action that    *)
(* makes the call.                                                         *)
(***************************************************************************)
EXTENDS Integers, Sequences, FiniteSets, TLC

VARIABLES
    \* ---- C_MySQL (oo_mariadb.h:129-131) and the native handles it talks to
    m_mysql,        \* MYSQL *m_mysql: 0 is nullptr, otherwise a handle id
    m_threadID,     \* unsigned long m_threadID
    m_pstmt,        \* std::unique_ptr<C_MySqlStmt> m_pstmt: NoStmt or a Statement
    session,        \* the open native handles, each with the server thread id of
                    \* its session (0: initialised, not connected)
    nextHandle,     \* the id mysql_init() hands out next
    nextThread,     \* the thread id the server assigns next
    observed,       \* history: the thread id seen at the most recent successful
                    \* mysql_ping() or mysql_real_connect() on m_mysql
    sessionLock,    \* history: the lock statement the lock object most recently
                    \* had accepted on the current session of m_mysql and has
                    \* not undone by "unlock tables"; NoLock for none
    ret,            \* history: what the program's last call of mysql(), stmt(),
                    \* threadId() or disconnect() did and how it ended
    \* ---- C_MySqlStmt (oo_mariadb.h:77-80)
    m_bindSize,     \* size_t m_bindSize
    m_bindSizeLimit,\* size_t m_bindSizeLimit
    m_bindArr,      \* std::unique_ptr<MYSQL_BIND[]> m_bindArr: <<>> is null
    m_maxPacketBytes, \* mutable unsigned m_maxPacketBytes
    call,           \* the member function in progress and where it stands
    binderSaw,      \* history: the active descriptors as handed to the binder
    sent,           \* history: the chunks mysql_stmt_send_long_data() was given
    answers,        \* history: the server's answers to "select @@max_allowed_packet"
    codes,          \* history: the error codes of the attempts of this call
    \* ---- query(MYSQL*, const std::string&) (oo_mariadb.cpp:57-70)
    qcall,          \* the call of query() in progress and where it stands
    qlog,           \* history: the native calls of this call of query(), in order
    \* ---- C_LockTablesTillEnd (oo_mariadb.h:163-165)
    m_spec,         \* std::map<std::string,const char*> m_spec: table -> mode
    m_state,        \* E_LockState m_state
    scope,          \* the lifetime of the lock object: "alive", "destroyed", or
                    \* "terminated" (an exception left its destructor)
    lret,           \* history: what the last member call of the lock object did
    \* ---- queryString() and nextRow() (oo_mariadb.cpp:113-133, 548-555)
    rows,           \* the rows of the result mysql_fetch_row() has not returned yet
    scalar          \* the call of queryString() or nextRow() and where it stands

connVars == <<m_mysql, m_threadID, m_pstmt, session, nextHandle, nextThread, observed,
              sessionLock, ret>>

stmtVars == <<m_bindSize, m_bindSizeLimit, m_bindArr, m_maxPacketBytes, call,
              binderSaw, sent, answers, codes>>

queryVars == <<qcall, qlog>>

lockVars == <<m_spec, m_state, scope, lret>>

scalarVars == <<rows, scalar>>

vars == <<connVars, stmtVars, queryVars, lockVars, scalarVars>>

(***************************************************************************)
(* Bounds of the model.                                                    *)
(***************************************************************************)
\* mysql_init() is called at most this many times in a behaviour
MaxHandle == 3
\* the server assigns at most this many thread ids in a behaviour
MaxThread == 4
\* a statement has at most this many parameters or result columns
MaxBind == 2
\* the width of C's unsigned, scaled down from 32 bits so that the offsets of
\* the chunk loop stay small; every program constant fits in it
UnsignedBits == 17
\* sent keeps the first MaxChunks - 1 chunks of a call and the latest one
MaxChunks == 10
\* answers keeps the first MaxAnswers answers of a Statement's lifetime
MaxAnswers == 2
\* codes keeps the first MaxAttempts - 1 codes of a call and the latest one
MaxAttempts == 3

(***************************************************************************)
(* C_MySQL: the connection lifecycle.                                      *)
(***************************************************************************)
\* An empty std::unique_ptr<C_MySqlStmt>. A Statement is the native handle it
\* was created on (m_stmt->mysql) and, as history, the server thread id that
\* handle had when mysql_stmt_init() ran.
NoStmt == [mysql |-> 0, session |-> 0]

\* A server session on which no lock statement is in force: every session
\* begins so, at mysql_real_connect() (oo_mariadb.cpp:335) and at a reconnect
\* of the library (MYSQL_OPT_RECONNECT, line 327)
NoLock == "none"

\* The outcomes of mysql_ping() on a handle with MYSQL_OPT_RECONNECT set: the
\* session answers, the library reconnected by itself (a new session, hence a
\* new thread id, on the same MYSQL*), or the probe fails.
PingOutcomes == {"alive", "reconnected", "dead"}

\* How far connect_() gets: the native step that fails, or "ok".
ConnectOutcomes == {"init_fail", "charset_fail", "reconnect_opt_fail",
                    "connect_fail", "sql_mode_fail", "ok"}

\* The state a call works on: the object's fields, the environment, and the
\* record of the call in progress (steps: the native calls made, in order;
\* raised: the exception thrown, "" for none).
Enter(op) ==
    [m_mysql |-> m_mysql, m_threadID |-> m_threadID, m_pstmt |-> m_pstmt,
     session |-> session, nextHandle |-> nextHandle, nextThread |-> nextThread,
     observed |-> observed, sessionLock |-> sessionLock,
     op |-> op, steps |-> <<>>, raised |-> "", probe |-> "none",
     connect |-> "none", value |-> 0]

Step(s, name) == [s EXCEPT !.steps = Append(@, name)]

Raise(s, what) == [s EXCEPT !.raised = what]

\* mysql_close(h): the handle is gone
CloseHandle(s, h) ==
    Step([s EXCEPT !.session = [x \in (DOMAIN s.session) \ {h} |-> s.session[x]]],
         "mysql_close")

\* A slip in disconnect(): the Statement is not destroyed
disconnect_KeepStmt(s) ==
    IF s.m_mysql # 0
    THEN [CloseHandle(s, s.m_mysql) EXCEPT !.m_mysql = 0, !.sessionLock = NoLock]
    ELSE s

\* C_MySQL::disconnect(), oo_mariadb.cpp:358-366
disconnect(s) ==
    LET s1 == IF s.m_pstmt # NoStmt
              THEN Step([s EXCEPT !.m_pstmt = NoStmt], "mysql_stmt_close")
              ELSE s
    IN  IF s1.m_mysql # 0
        THEN [CloseHandle(s1, s1.m_mysql) EXCEPT !.m_mysql = 0, !.sessionLock = NoLock]
        ELSE s1

\* The tail of connect_(), oo_mariadb.cpp:352-355: release the new handle,
\* then raise.
ConnectFailed(s, h, whatPrefix) ==
    Raise(CloseHandle(Step(s, "errorSuffix"), h), whatPrefix)

\* C_MySQL::connect_(), oo_mariadb.cpp:309-356
connect_(s, outcome) ==
    LET s1 == Step(disconnect(s), "mysql_init")
        h  == s1.nextHandle
        t  == s1.nextThread
        \* mysql_init() returned h
        s2 == Step([s1 EXCEPT !.session = [x \in (DOMAIN s1.session) \cup {h} |->
                                              IF x = h THEN 0 ELSE s1.session[x]],
                              !.nextHandle = h + 1],
                   "m_getConnArg")
        s3 == Step(s2, "set_charset")
        s4 == Step(s3, "opt_reconnect")
        s5 == Step(s4, "mysql_real_connect")
        \* connected: the server opened session t for h
        s6 == Step([s5 EXCEPT !.session[h] = t, !.nextThread = t + 1,
                              !.m_mysql = h, !.observed = t],
                   "set_sql_mode")
    IN  CASE outcome = "init_fail" ->
                [Raise(s1, "mysql_init() failed") EXCEPT !.connect = outcome]
          [] outcome = "charset_fail" ->
                [ConnectFailed(s3, h, "Fail to set charset") EXCEPT !.connect = outcome]
          [] outcome = "reconnect_opt_fail" ->
                [ConnectFailed(s4, h, "Fail to enable auto-reconnect") EXCEPT !.connect = outcome]
          [] outcome = "connect_fail" ->
                [ConnectFailed(s5, h, "Fail to connect") EXCEPT !.connect = outcome]
          [] outcome = "sql_mode_fail" ->
                \* query() throws at line 342, after m_mysql = mysql at line 341
                [Raise(s6, "Query") EXCEPT !.connect = outcome]
          [] OTHER ->
                [Step(s6, "mysql_thread_id") EXCEPT !.m_threadID = t, !.connect = "ok"]

\* A slip in the then-branch of mysql(): the new thread id is adopted and the
\* Statement of the old session is kept
AfterPing_KeepStmt(s) ==
    LET cur_id == s.session[s.m_mysql]
    IN  [Step(s, "mysql_thread_id") EXCEPT !.observed = cur_id, !.m_threadID = cur_id]

\* The then-branch of C_MySQL::mysql(), oo_mariadb.cpp:293-301: the probe
\* succeeded and the thread id is compared
AfterPing(s) ==
    LET cur_id == s.session[s.m_mysql]
        s1 == [Step(s, "mysql_thread_id") EXCEPT !.observed = cur_id]
    IN  IF cur_id # s1.m_threadID
        THEN [s1 EXCEPT !.m_threadID = cur_id, !.m_pstmt = NoStmt]
        ELSE s1

\* flushResults(m_mysql), then mysql_ping(m_mysql), oo_mariadb.cpp:291: what
\* the probe does to the session, and its result
Probe(s, ping) ==
    LET h  == s.m_mysql
        s1 == Step(Step(s, "flushResults"), "mysql_ping")
    IN  CASE ping = "dead" -> [s1 EXCEPT !.probe = "fail"]
          [] ping = "reconnected" ->
                [s1 EXCEPT !.probe = "ok", !.session[h] = s1.nextThread,
                           !.nextThread = s1.nextThread + 1,
                           !.sessionLock = NoLock]
          [] OTHER -> [s1 EXCEPT !.probe = "ok"]

\* A slip in mysql(): the result of mysql_ping() is not looked at
mysql_IgnorePing(s, ping, outcome) ==
    LET s1 == IF s.m_pstmt # NoStmt THEN Step(s, "mysql_stmt_free_result") ELSE s
        s2 == IF s1.m_mysql # 0 THEN Probe(s1, ping) ELSE s1
        r  == IF s1.m_mysql # 0 THEN AfterPing(s2) ELSE connect_(s2, outcome)
    IN  IF r.raised = "" THEN [r EXCEPT !.value = r.m_mysql] ELSE r

\* C_MySQL::mysql(), oo_mariadb.cpp:285-307
mysql(s, ping, outcome) ==
    LET s1 == IF s.m_pstmt # NoStmt THEN Step(s, "mysql_stmt_free_result") ELSE s
        s2 == IF s1.m_mysql # 0 THEN Probe(s1, ping) ELSE s1
        r  == IF s1.m_mysql # 0 /\ s2.probe = "ok"
              THEN AfterPing(s2)
              ELSE connect_(s2, outcome)
    IN  IF r.raised = "" THEN [r EXCEPT !.value = r.m_mysql] ELSE r

\* C_MySQL::stmt(), oo_mariadb.cpp:368-375, with the constructor
\* C_MySqlStmt::C_MySqlStmt (398-402), which throws when mysql_stmt_init()
\* returns null
stmt(s, ping, outcome, initOk) ==
    LET s1 == mysql(s, ping, outcome)
        my == s1.value
    IN  IF s1.raised # "" THEN s1
        ELSE IF s1.m_pstmt # NoStmt THEN s1
        ELSE IF ~initOk THEN Raise(Step(s1, "mysql_stmt_init"), "Fail to init stmt")
        ELSE [Step(s1, "mysql_stmt_init") EXCEPT
                 !.m_pstmt = [mysql |-> my, session |-> s1.session[my]]]

\* A slip in threadId(): a connect that failed is tried once more
threadId_ConnectAgain(s, outcome) ==
    LET s1 == IF s.m_mysql = 0 THEN connect_(s, outcome) ELSE s
        s2 == IF s1.raised # "" THEN connect_([s1 EXCEPT !.raised = ""], "ok") ELSE s1
    IN  IF s2.raised = "" THEN [s2 EXCEPT !.value = s2.m_threadID] ELSE s2

\* C_MySQL::threadId(), oo_mariadb.cpp:377-383
threadId(s, outcome) ==
    LET s1 == IF s.m_mysql = 0 THEN connect_(s, outcome) ELSE s
    IN  IF s1.raised = "" THEN [s1 EXCEPT !.value = s1.m_threadID] ELSE s1

\* The call ends: the fields and the environment take the values the call left
LeaveConn(s) ==
    /\ m_mysql' = s.m_mysql
    /\ m_threadID' = s.m_threadID
    /\ m_pstmt' = s.m_pstmt
    /\ session' = s.session
    /\ nextHandle' = s.nextHandle
    /\ nextThread' = s.nextThread
    /\ observed' = s.observed
    /\ sessionLock' = s.sessionLock

\* A call on the C_MySQL object alone: ret records it
Leave(s) ==
    /\ LeaveConn(s)
    /\ ret' = [op |-> s.op, steps |-> s.steps, raised |-> s.raised,
               probe |-> s.probe, connect |-> s.connect, value |-> s.value,
               stmt |-> IF s.op = "stmt" /\ s.raised = "" THEN s.m_pstmt ELSE NoStmt,
               before |-> [m_mysql |-> m_mysql, m_pstmt |-> m_pstmt,
                           session |-> session]]
    /\ UNCHANGED <<stmtVars, queryVars, lockVars, scalarVars>>

\* The ids a call may need are still to be had
Within(s) == s.nextHandle <= MaxHandle + 1 /\ s.nextThread <= MaxThread + 1

NoCall ==
    [op |-> "none", steps |-> <<>>, raised |-> "", probe |-> "none",
     connect |-> "none", value |-> 0, stmt |-> NoStmt,
     before |-> [m_mysql |-> 0, m_pstmt |-> NoStmt, session |-> <<>>]]

InitConn ==
    /\ m_mysql = 0
    /\ m_threadID = 0
    /\ m_pstmt = NoStmt
    /\ session = <<>>
    /\ nextHandle = 1
    /\ nextThread = 1
    /\ observed = 0
    /\ sessionLock = NoLock
    /\ ret = NoCall

CallMysql ==
    \E ping \in PingOutcomes, outcome \in ConnectOutcomes :
        LET s == mysql(Enter("mysql"), ping, outcome)
        IN  Within(s) /\ Leave(s)

CallStmt ==
    \E ping \in PingOutcomes, outcome \in ConnectOutcomes, initOk \in BOOLEAN :
        LET s == stmt(Enter("stmt"), ping, outcome, initOk)
        IN  Within(s) /\ Leave(s)

CallThreadId ==
    \E outcome \in ConnectOutcomes :
        LET s == threadId(Enter("threadId"), outcome)
        IN  Within(s) /\ Leave(s)

CallDisconnect ==
    Leave(disconnect(Enter("disconnect")))

\* The caller uses the handle mysql() returned (query(), oo_mariadb.cpp:61) and
\* the library, with MYSQL_OPT_RECONNECT set at line 327, reconnects by itself:
\* the handle stays, its session and thread id are new.
AutoReconnect ==
    /\ m_mysql # 0
    /\ nextThread <= MaxThread
    /\ session' = [session EXCEPT ![m_mysql] = nextThread]
    /\ nextThread' = nextThread + 1
    /\ sessionLock' = NoLock
    /\ ret' = [NoCall EXCEPT !.op = "auto_reconnect"]
    /\ UNCHANGED <<m_mysql, m_threadID, m_pstmt, nextHandle, observed>>
    /\ UNCHANGED <<stmtVars, queryVars, lockVars, scalarVars>>

NextConn ==
    \/ CallMysql
    \/ CallStmt
    \/ CallThreadId
    \/ CallDisconnect
    \/ AutoReconnect

(***************************************************************************)
(* C_MySqlStmt: the binding array, long-data transfer, execution.          *)
(***************************************************************************)
\* 2^n
RECURSIVE Pow2(_)
Pow2(n) == IF n = 0 THEN 1 ELSE 2 * Pow2(n - 1)

\* The values of C's unsigned are 0 .. UnsignedMod - 1
UnsignedMod == Pow2(UnsignedBits)

\* static_cast to unsigned, and unsigned arithmetic: modulo 2^width. The
\* operand may be negative (a difference of wider unsigned values).
ToUnsigned(x) == x % UnsignedMod

Min(a, b) == IF a < b THEN a ELSE b

\* "Deadlock found when trying to get lock; try restarting transaction"
ER_LOCK_DEADLOCK == 1213
\* "Lock wait timeout exceeded; try restarting transaction"
ER_LOCK_WAIT_TIMEOUT == 1205
\* the answer maxAllowedPacket() falls back to
FallbackPacketBytes == 65536
\* the answer must be a multiple of this
PacketGrain == 1024

\* A MYSQL_BIND after memset(…, 0, …), or value-initialised by make_unique.
\* Of a descriptor the model keeps buffer (0: null) and buffer_length.
ZeroBind == [buffer |-> 0, buffer_length |-> 0]

\* A slip in allocBind(): the array is reused without being cleared
allocBind_NoMemset(count) ==
    LET grown == m_bindSizeLimit < count
    IN  IF count # 0
        THEN [m_bindSize |-> count,
              m_bindSizeLimit |-> IF grown THEN count ELSE m_bindSizeLimit,
              m_bindArr |-> IF grown
                            THEN [k \in 1..count |->
                                    IF k <= m_bindSizeLimit THEN m_bindArr[k] ELSE ZeroBind]
                            ELSE m_bindArr]
        ELSE [m_bindSize |-> 0, m_bindSizeLimit |-> 0, m_bindArr |-> <<>>]

\* A slip in allocBind(): the array is reallocated to the exact count whenever
\* the count differs
allocBind_Exact(count) ==
    IF count # 0
    THEN [m_bindSize |-> count, m_bindSizeLimit |-> count,
          m_bindArr |-> [k \in 1..count |-> ZeroBind]]
    ELSE [m_bindSize |-> 0, m_bindSizeLimit |-> 0, m_bindArr |-> <<>>]

\* C_MySqlStmt::allocBind(count), oo_mariadb.cpp:415-431: the values of
\* m_bindSize, m_bindSizeLimit and m_bindArr it leaves
allocBind(count) ==
    LET grown == m_bindSizeLimit < count
        limit == IF grown THEN count ELSE m_bindSizeLimit
        arr   == IF grown THEN [k \in 1..count |-> ZeroBind] ELSE m_bindArr
    IN  IF count # 0
        THEN [m_bindSize |-> count, m_bindSizeLimit |-> limit,
              m_bindArr |-> [k \in 1..limit |-> IF k <= count THEN ZeroBind ELSE arr[k]]]
        ELSE [m_bindSize |-> 0, m_bindSizeLimit |-> 0, m_bindArr |-> <<>>]

\* binder(barr): the caller's binder fills the descriptors; w[k] is what it
\* leaves in descriptor k (ZeroBind: it does not touch it)
binder(arr, w) ==
    [k \in 1..Len(arr) |-> IF k <= Len(w) /\ w[k] # ZeroBind THEN w[k] ELSE arr[k]]

\* What the temporary statement "select @@max_allowed_packet" of
\* maxAllowedPacket() comes back with: "error" (prepare, execute, bind or fetch
\* raised), "norow" (nextRow() false), "null" (a row whose value is NULL), or
\* "value" (a row, its value fetched into the bound m_maxPacketBytes)
Answer(row, value) == [row |-> row, value |-> value]

\* C_MySqlStmt::maxAllowedPacket(), oo_mariadb.cpp:530-546, for the answer
\* ans. On a NULL value mysql_stmt_fetch() sets is_null_value and leaves the
\* bound m_maxPacketBytes as it was, 0. value is the m_maxPacketBytes left and
\* returned; asked: the query was issued.
maxAllowedPacket(ans) ==
    IF m_maxPacketBytes # 0
    THEN [value |-> m_maxPacketBytes, asked |-> FALSE, raised |-> ""]
    ELSE CASE ans.row = "error" ->
                [value |-> 0, asked |-> TRUE, raised |-> "maxAllowedPacket"]
           [] ans.row = "norow" ->
                [value |-> FallbackPacketBytes \div 2, asked |-> TRUE, raised |-> ""]
           [] OTHER ->
                LET fetched == IF ans.row = "null" THEN m_maxPacketBytes
                               ELSE ToUnsigned(ans.value)
                IN  [value |-> (IF fetched % PacketGrain # 0
                                THEN FallbackPacketBytes ELSE fetched) \div 2,
                     asked |-> TRUE, raised |-> ""]

\* No member function in progress
Idle ==
    [op |-> "none", pc |-> "idle", raised |-> "", result |-> 0, i |-> 0,
     longParams |-> <<>>, k |-> 0, off |-> 0, step |-> 0, stale |-> FALSE]

\* A function may be called when none is in progress
Callable == call.pc \in {"idle", "done"}

InitStmt ==
    /\ m_bindSize = 0
    /\ m_bindSizeLimit = 0
    /\ m_bindArr = <<>>
    /\ m_maxPacketBytes = 0
    /\ call = Idle
    /\ binderSaw = <<>>
    /\ sent = <<>>
    /\ answers = <<>>
    /\ codes = <<>>

\* history: the answer of a discovery query that came back
Answered(r, ans) ==
    IF r.asked /\ r.raised = "" /\ Len(answers) < MaxAnswers
    THEN Append(answers, ans) ELSE answers

\* history: one more entry of a log that keeps its first max - 1 entries and
\* the latest
Logged(log, e, max) ==
    IF Len(log) < max THEN Append(log, e) ELSE [log EXCEPT ![max] = e]

\* allocBind(count), then binder(bindArray()): oo_mariadb.cpp:435-437 and 490-492
BindPass(count, w) ==
    LET a == allocBind(count)
    IN  /\ m_bindSize' = a.m_bindSize
        /\ m_bindSizeLimit' = a.m_bindSizeLimit
        /\ binderSaw' = SubSeq(a.m_bindArr, 1, a.m_bindSize)
        /\ m_bindArr' = binder(a.m_bindArr, w)

\* Whether a descriptor the pass is about to hand out held something
StaleBefore(count) ==
    \E k \in 1..Min(count, Len(m_bindArr)) : m_bindArr[k] # ZeroBind

\* C_MySqlStmt::bindParams(binder), oo_mariadb.cpp:433-438: up to the scan for
\* long parameters. count is mysql_stmt_param_count(m_stmt).
BindParams(count, w) ==
    /\ Callable
    /\ BindPass(count, w)
    /\ call' = [Idle EXCEPT !.op = "bindParams", !.pc = "scan",
                            !.stale = StaleBefore(count)]
    /\ sent' = <<>>
    /\ codes' = <<>>
    /\ UNCHANGED <<m_maxPacketBytes, answers>>

\* bindParams(), oo_mariadb.cpp:439-444: one turn of the scan, and after the
\* last one mysql_stmt_bind_param()
ScanParam(ans, bound) ==
    /\ call.pc = "scan"
    /\ IF call.i < m_bindSize
       THEN LET r == maxAllowedPacket(ans)
                long == m_bindArr[call.i + 1].buffer_length > r.value
            IN  /\ m_maxPacketBytes' = r.value
                /\ answers' = Answered(r, ans)
                /\ call' = IF r.raised # ""
                           THEN [call EXCEPT !.pc = "done", !.raised = r.raised]
                           ELSE [call EXCEPT !.i = @ + 1,
                                             !.longParams = IF long THEN Append(@, call.i)
                                                            ELSE @]
       ELSE /\ call' = IF ~bound
                       THEN [call EXCEPT !.pc = "done", !.raised = "Fail to bind params"]
                       ELSE IF call.longParams = <<>>
                       THEN [call EXCEPT !.pc = "done"]
                       ELSE [call EXCEPT !.pc = "step", !.k = 1]
            /\ UNCHANGED <<m_maxPacketBytes, answers>>
    /\ UNCHANGED <<m_bindSize, m_bindSizeLimit, m_bindArr, binderSaw, sent, codes>>

\* bindParams(), oo_mariadb.cpp:448-450: the next long parameter, its step and
\* unsigned off = 0
StartLongParam(ans) ==
    /\ call.pc = "step"
    /\ LET r == maxAllowedPacket(ans)
       IN  /\ m_maxPacketBytes' = r.value
           /\ answers' = Answered(r, ans)
           /\ call' = IF r.raised # ""
                      THEN [call EXCEPT !.pc = "done", !.raised = r.raised]
                      ELSE [call EXCEPT !.pc = "send", !.step = r.value, !.off = 0]
    /\ UNCHANGED <<m_bindSize, m_bindSizeLimit, m_bindArr, binderSaw, sent, codes>>

\* bindParams(), oo_mariadb.cpp:452: std::min(step, unsigned(src.buffer_length-off))
ChunkBytes(buffer_length, off, step) ==
    Min(step, ToUnsigned(buffer_length - off))

\* bindParams(), oo_mariadb.cpp:450-455: one turn of the chunk loop (the test
\* off < src.buffer_length, the send, off += step), or the end of the loop
SendLongData(ok) ==
    /\ call.pc = "send"
    /\ LET param == call.longParams[call.k]
           src == m_bindArr[param + 1]
           bytes == ChunkBytes(src.buffer_length, call.off, call.step)
       IN  IF call.off < src.buffer_length
           THEN /\ sent' = Logged(sent, [param |-> param, off |-> call.off, bytes |-> bytes],
                                  MaxChunks)
                /\ call' = IF ~ok
                           THEN [call EXCEPT !.pc = "done",
                                             !.raised = "Fail to send long data part"]
                           ELSE [call EXCEPT !.off = ToUnsigned(@ + call.step)]
           ELSE /\ sent' = sent
                /\ call' = IF call.k < Len(call.longParams)
                           THEN [call EXCEPT !.pc = "step", !.k = @ + 1]
                           ELSE [call EXCEPT !.pc = "done"]
    /\ UNCHANGED <<m_bindSize, m_bindSizeLimit, m_bindArr, m_maxPacketBytes,
                   binderSaw, answers, codes>>

\* The entry of execNoThrow(), exec() or execBindResults(): the label Retry,
\* oo_mariadb.cpp:472
StartExec(op) ==
    /\ Callable
    /\ call' = [Idle EXCEPT !.op = op, !.pc = "execute"]
    /\ codes' = <<>>
    /\ UNCHANGED <<m_bindSize, m_bindSizeLimit, m_bindArr, m_maxPacketBytes,
                   binderSaw, sent, answers>>

\* A slip in execNoThrow(): the lock wait timeout is retried like the deadlock
RetriedByExec_Both == {ER_LOCK_WAIT_TIMEOUT, ER_LOCK_DEADLOCK}

\* C_MySqlStmt::execNoThrow(), oo_mariadb.cpp:475-479: the codes that goto Retry
RetriedByExec == {ER_LOCK_DEADLOCK}

\* One attempt of execNoThrow(), oo_mariadb.cpp:473-484: code is
\* mysql_stmt_errno() after mysql_stmt_execute(), 0 when it succeeded. On a
\* code that is not retried execNoThrow() returns it, and the caller goes on:
\* exec() (464-468) raises on a nonzero code; execBindResults() (487-497) then
\* binds count = mysql_stmt_field_count(m_stmt) result columns.
Execute(code, count, w, bound) ==
    /\ call.pc = "execute"
    /\ codes' = Logged(codes, code, MaxAttempts)
    /\ IF code \in RetriedByExec
       THEN /\ call' = call
            /\ UNCHANGED <<m_bindSize, m_bindSizeLimit, m_bindArr, binderSaw>>
       ELSE IF call.op = "execBindResults" /\ code = 0
       THEN /\ BindPass(count, w)
            /\ call' = [call EXCEPT !.pc = "done", !.stale = StaleBefore(count),
                                    !.raised = IF bound THEN "" ELSE "Fail to bind result"]
       ELSE /\ call' = [call EXCEPT !.pc = "done", !.result = code,
                                    !.raised = IF call.op # "execNoThrow" /\ code # 0
                                               THEN "Fail to execute" ELSE ""]
            /\ UNCHANGED <<m_bindSize, m_bindSizeLimit, m_bindArr, binderSaw>>
    /\ UNCHANGED <<m_maxPacketBytes, sent, answers>>

\* What mysql_stmt_errno() may be: success, the two transient codes, and two
\* others (duplicate entry, syntax error)
ErrorCodes == {0, ER_LOCK_WAIT_TIMEOUT, ER_LOCK_DEADLOCK, 1062, 1064}

\* The descriptors a binder may leave, given the lengths it may set
BindsOf(lengths) ==
    {ZeroBind} \cup {[buffer |-> 1, buffer_length |-> n] : n \in lengths}

\* The binder's writes for count descriptors
WritesOf(count, lengths) == [1..count -> BindsOf(lengths)]

(***************************************************************************)
(* query(): the text-query path and its retry loop.                        *)
(***************************************************************************)
QueryIdle == [pc |-> "idle", raised |-> "", errno |-> 0]

InitQuery ==
    /\ qcall = QueryIdle
    /\ qlog = <<>>

\* A slip in query(): the pending results are not drained
QueryCall_NoDrain ==
    /\ qcall.pc \in {"idle", "done"}
    /\ qcall' = [QueryIdle EXCEPT !.pc = "Retry"]
    /\ qlog' = <<>>
    /\ UNCHANGED <<connVars, stmtVars, lockVars, scalarVars>>

\* query(mysql, sql), oo_mariadb.cpp:59: flushResults(mysql), then the label
\* Retry
QueryCall ==
    /\ qcall.pc \in {"idle", "done"}
    /\ qcall' = [QueryIdle EXCEPT !.pc = "Retry"]
    /\ qlog' = <<[call |-> "flushResults", errno |-> 0]>>
    /\ UNCHANGED <<connVars, stmtVars, lockVars, scalarVars>>

\* A slip in query(): every error is resubmitted on
RetriedByQuery_EveryError == {ER_LOCK_WAIT_TIMEOUT, ER_LOCK_DEADLOCK, 1062, 1064}

\* query(), oo_mariadb.cpp:62-66: the codes that goto Retry
RetriedByQuery == {ER_LOCK_WAIT_TIMEOUT, ER_LOCK_DEADLOCK}

\* One attempt of query(), oo_mariadb.cpp:61-69: errno is mysql_errno() after
\* mysql_query(), 0 when it succeeded
QuerySubmit(errno) ==
    /\ qcall.pc = "Retry"
    /\ qlog' = Logged(qlog, [call |-> "mysql_query", errno |-> errno], MaxAttempts + 1)
    /\ qcall' = IF errno = 0 THEN [qcall EXCEPT !.pc = "done"]
                ELSE IF errno \in RetriedByQuery THEN qcall
                ELSE [qcall EXCEPT !.pc = "done", !.raised = "Query", !.errno = errno]
    /\ UNCHANGED <<connVars, stmtVars, lockVars, scalarVars>>

(***************************************************************************)
(* C_LockTablesTillEnd: the pending lock spec, the lock status and the     *)
(* statements it sends through the connection.                             *)
(***************************************************************************)
\* the tables a lock spec names are 1 .. MaxTables; std::map keeps its keys in
\* ascending order
MaxTables == 2
Tables == 1..MaxTables

\* An empty std::map
NoSpec == [t \in {} |-> "read"]

\* The keys of a std::map in the order the range-for of lock() visits them
RECURSIVE KeysInOrder(_)
KeysInOrder(S) ==
    IF S = {} THEN <<>>
    ELSE LET first == CHOOSE x \in S : \A y \in S : x <= y
         IN  <<first>> \o KeysInOrder(S \ {first})

\* An SQL text the lock object sends: its leading words and, for "lock
\* tables", the comma-separated items "<table> <mode>"
Sql(verb, items) == [verb |-> verb, items |-> items]

\* A slip in the loop of lock(): the text is begun anew for every entry, so only
\* the last entry is left in it
LockSql_LastOnly(spec) ==
    LET keys == KeysInOrder(DOMAIN spec)
        last == keys[Len(keys)]
    IN  Sql("lock tables", <<[table |-> last, mode |-> spec[last]]>>)

\* The text lock() builds from a non-empty m_spec, oo_mariadb.cpp:595-604
LockSql(spec) ==
    LET keys == KeysInOrder(DOMAIN spec)
    IN  Sql("lock tables", [k \in 1..Len(keys) |-> [table |-> keys[k], mode |-> spec[keys[k]]]])

\* oo_mariadb.cpp:613
FlushSql == Sql("FLUSH TABLES WITH READ LOCK", <<>>)

\* oo_mariadb.cpp:632
UnlockSql == Sql("unlock tables", <<>>)

\* The sequences of transient codes a call of query() may be answered before
\* the code it ends with
Transients == {<<>>, <<ER_LOCK_WAIT_TIMEOUT>>, <<ER_LOCK_DEADLOCK, ER_LOCK_WAIT_TIMEOUT>>}

\* What the environment does to one call of query(m_mysql, sql) by the lock
\* object: the probe of mysql(), the connect that follows a failed probe or
\* finds no handle, the transient codes answered first, and the code the call
\* ends with (success, or a syntax error)
QueryInputs ==
    {[ping |-> c[1], outcome |-> c[2], transient |-> t, errno |-> e] :
        c \in {<<"alive", "ok">>, <<"dead", "ok">>, <<"dead", "connect_fail">>},
        t \in Transients, e \in {0, 1064}}

\* The state a member call of the lock object works on: the connection as a
\* call of C_MySQL sees it (c), the object's fields, and the record of the call
\* (issued: the submissions of mysql_query(), each with its text and the code
\* it was answered; unlocks: the calls of unlock())
EnterLock(op) ==
    [c |-> Enter(op), m_spec |-> m_spec, m_state |-> m_state,
     issued |-> <<>>, unlocks |-> 0]

\* What a statement of the lock object, once accepted, leaves in force on the
\* session that received it
InForce(sql) == IF sql = UnlockSql THEN NoLock ELSE sql.verb

\* query(mysql, sql), oo_mariadb.cpp:57-70, with its resubmissions, for the
\* lock object's call whose argument, the conversion of m_mysql, left c1
Submitted(l, sql, in, c1) ==
    IF c1.raised # ""
    THEN [l EXCEPT !.c = c1]
    ELSE [l EXCEPT
            !.c = [Step(Step(c1, "flushResults"), "mysql_query") EXCEPT
                      !.raised = IF in.errno # 0 THEN "Query" ELSE "",
                      !.sessionLock = IF in.errno # 0 THEN @ ELSE InForce(sql)],
            !.issued = @ \o [k \in 1..(Len(in.transient) + 1) |->
                                [sql |-> sql,
                                 errno |-> (in.transient \o <<in.errno>>)[k]]]]

\* query(m_mysql, sql) as the lock object calls it: m_mysql is a C_MySQL&, so
\* the argument is C_MySQL::operator MYSQL*() (oo_mariadb.h:116), that is
\* mysql(), which may raise before anything is sent
query(l, sql, in) ==
    Submitted(l, sql, in, mysql(l.c, in.ping, in.outcome))

\* m_state = state, the statement after query() in lock(), lockAllRead() and
\* unlock(): reached when query() returned
Returned(l, state) ==
    IF l.c.raised = "" THEN [l EXCEPT !.m_state = state] ELSE l

\* C_LockTablesTillEnd::addRead(table), oo_mariadb.cpp:580-583
addRead(l, table) ==
    [l EXCEPT !.m_spec = [t \in (DOMAIN l.m_spec) \cup {table} |->
                            IF t = table THEN "read" ELSE l.m_spec[t]]]

\* C_LockTablesTillEnd::addWrite(table), oo_mariadb.cpp:585-588
addWrite(l, table) ==
    [l EXCEPT !.m_spec = [t \in (DOMAIN l.m_spec) \cup {table} |->
                            IF t = table THEN "write" ELSE l.m_spec[t]]]

\* C_LockTablesTillEnd::remove(table), oo_mariadb.cpp:618-621
remove(l, table) ==
    [l EXCEPT !.m_spec = [t \in (DOMAIN l.m_spec) \ {table} |-> l.m_spec[t]]]

\* A slip in removeAll(): the status is reset along with the spec
removeAll_ResetState(l) ==
    [l EXCEPT !.m_spec = NoSpec, !.m_state = "LS_NONE"]

\* C_LockTablesTillEnd::removeAll(), oo_mariadb.cpp:623-626
removeAll(l) ==
    [l EXCEPT !.m_spec = NoSpec]

\* history: one more call of unlock()
Counted(l) == [l EXCEPT !.unlocks = @ + 1]

\* C_LockTablesTillEnd::unlock(), oo_mariadb.cpp:628-635
unlock(l, in) ==
    IF l.m_state # "LS_NONE"
    THEN Returned(query(Counted(l), UnlockSql, in), "LS_NONE")
    ELSE Counted(l)

\* C_LockTablesTillEnd::lock(), oo_mariadb.cpp:590-607
lock(l, in) ==
    IF DOMAIN l.m_spec = {}
    THEN unlock(l, in)
    ELSE Returned(query(l, LockSql(l.m_spec), in), "LS_BY_SPEC")

\* A slip in lockAllRead(): the statement is sent whatever the status
lockAllRead_Always(l, in) ==
    Returned(query(l, FlushSql, in), "LS_ALL_READ")

\* C_LockTablesTillEnd::lockAllRead(), oo_mariadb.cpp:609-616
lockAllRead(l, in) ==
    IF l.m_state # "LS_ALL_READ"
    THEN Returned(query(l, FlushSql, in), "LS_ALL_READ")
    ELSE l

NoLockCall ==
    [op |-> "none", table |-> 0, issued |-> <<>>, unlocks |-> 0, raised |-> "",
     before |-> "LS_NONE"]

\* C_LockTablesTillEnd::C_LockTablesTillEnd(mysql), oo_mariadb.cpp:574-578
InitLock ==
    /\ m_spec = NoSpec
    /\ m_state = "LS_NONE"
    /\ scope = "alive"
    /\ lret = [NoLockCall EXCEPT !.op = "C_LockTablesTillEnd"]

\* The member call ends: the fields of the lock object and of the connection
\* take the values the call left. lret records the call (before: m_state when
\* it began); ret, the record of the program's own calls on the connection, is
\* left as it was.
LeaveLock(l, table) ==
    /\ m_spec' = l.m_spec
    /\ m_state' = l.m_state
    /\ lret' = [op |-> l.c.op, table |-> table, issued |-> l.issued,
                unlocks |-> l.unlocks, raised |-> l.c.raised, before |-> m_state]
    /\ LeaveConn(l.c)
    /\ UNCHANGED <<ret, stmtVars, queryVars, scalarVars>>

Alive == scope = "alive"

AddRead(table) ==
    /\ Alive
    /\ LeaveLock(addRead(EnterLock("addRead"), table), table)
    /\ UNCHANGED scope

AddWrite(table) ==
    /\ Alive
    /\ LeaveLock(addWrite(EnterLock("addWrite"), table), table)
    /\ UNCHANGED scope

Remove(table) ==
    /\ Alive
    /\ LeaveLock(remove(EnterLock("remove"), table), table)
    /\ UNCHANGED scope

RemoveAll ==
    /\ Alive
    /\ LeaveLock(removeAll(EnterLock("removeAll")), 0)
    /\ UNCHANGED scope

\* The end of a member call that may have called the connection
LeaveCall(l) ==
    /\ Within(l.c)
    /\ LeaveLock(l, 0)

Lock(in) ==
    /\ Alive
    /\ LeaveCall(lock(EnterLock("lock"), in))
    /\ UNCHANGED scope

LockAllRead(in) ==
    /\ Alive
    /\ LeaveCall(lockAllRead(EnterLock("lockAllRead"), in))
    /\ UNCHANGED scope

Unlock(in) ==
    /\ Alive
    /\ LeaveCall(unlock(EnterLock("unlock"), in))
    /\ UNCHANGED scope

\* The end of the destructor: an exception that leaves it ends the process
LeaveDestructor(l) ==
    /\ LeaveCall(l)
    /\ scope' = IF l.c.raised = "" THEN "destroyed" ELSE "terminated"

\* ~C_LockTablesTillEnd() { unlock(); }, oo_mariadb.h:142. The destructor is
\* implicitly noexcept.
Destroy(in) ==
    /\ Alive
    /\ LeaveDestructor(unlock(EnterLock("~C_LockTablesTillEnd"), in))

\* The next lock scope on the same connection: the constructor again
NewScope ==
    /\ scope = "destroyed"
    /\ m_spec' = NoSpec
    /\ m_state' = "LS_NONE"
    /\ scope' = "alive"
    /\ lret' = [NoLockCall EXCEPT !.op = "C_LockTablesTillEnd"]
    /\ UNCHANGED <<connVars, stmtVars, queryVars, scalarVars>>

(***************************************************************************)
(* The scalar helpers: queryColumn() and queryString() on a text query,    *)
(* nextRow() on a Statement.                                               *)
(***************************************************************************)
\* a result has at most this many rows
MaxRows == 3

\* row[colInd] of a fetched row: a null pointer, or a C string
Null == [null |-> TRUE, s |-> ""]

Str(s) == [null |-> FALSE, s |-> s]

ColumnValues == {Null, Str(""), Str("a"), Str("b")}

\* The results query(mysql, sql, MYSQL_USE_RESULT) may hand to queryColumn():
\* the selected column of each row, in order
ResultSets == UNION {[1..n -> ColumnValues] : n \in 0..MaxRows}

\* mysql_stmt_fetch() returns 0 (a row), 1 (an error), MYSQL_NO_DATA (no more
\* rows) or MYSQL_DATA_TRUNCATED (a row, a column of which did not fit its
\* buffer)
FetchError == 1
MYSQL_NO_DATA == 100
MYSQL_DATA_TRUNCATED == 101

FetchOutcomes == {0, FetchError, MYSQL_NO_DATA, MYSQL_DATA_TRUNCATED}

ScalarIdle ==
    [op |-> "none", pc |-> "idle", ret |-> "", raised |-> "", result |-> <<>>,
     err |-> 0, value |-> FALSE]

InitScalar ==
    /\ rows = <<>>
    /\ scalar = ScalarIdle

\* queryString(mysql, sql, colInd), oo_mariadb.cpp:121-123 and 115: std::string
\* ret; then queryColumn() runs the query, which raises (ok false: the query
\* failed, or it has no result set) or yields the result
QueryString(ok, result) ==
    /\ scalar.pc \in {"idle", "done"}
    /\ IF ok
       THEN /\ scalar' = [ScalarIdle EXCEPT !.op = "queryString", !.pc = "fetch",
                                            !.result = result]
            /\ rows' = result
       ELSE /\ scalar' = [ScalarIdle EXCEPT !.op = "queryString", !.pc = "done",
                                            !.raised = "Query"]
            /\ rows' = <<>>
    /\ UNCHANGED <<connVars, stmtVars, queryVars, lockVars>>

\* The callback queryString() passes to queryColumn(), oo_mariadb.cpp:124-131:
\* the value of ret it leaves and what it returns
nextRowOfQueryString(cur, s) ==
    IF ~s.null THEN [ret |-> s.s, more |-> FALSE] ELSE [ret |-> cur, more |-> TRUE]

\* One turn of the loop of queryColumn(), oo_mariadb.cpp:116-118, and the
\* return of queryString() when the loop ends
FetchRow ==
    /\ scalar.pc = "fetch"
    /\ IF rows = <<>>
       THEN /\ scalar' = [scalar EXCEPT !.pc = "done"]
            /\ rows' = rows
       ELSE LET r == nextRowOfQueryString(scalar.ret, Head(rows))
            IN  /\ scalar' = [scalar EXCEPT !.ret = r.ret,
                                            !.pc = IF r.more THEN "fetch" ELSE "done"]
                /\ rows' = Tail(rows)
    /\ UNCHANGED <<connVars, stmtVars, queryVars, lockVars>>

\* A slip in nextRow(): every outcome but a fetched row and the end of data
\* raises
nextRow_TruncationRaises(err) ==
    IF err \notin {0, MYSQL_NO_DATA}
    THEN [value |-> FALSE, raised |-> "Fail to fetch row"]
    ELSE [value |-> err # MYSQL_NO_DATA, raised |-> ""]

\* C_MySqlStmt::nextRow(), oo_mariadb.cpp:548-555, for what mysql_stmt_fetch()
\* returned
nextRow(err) ==
    IF err = FetchError
    THEN [value |-> FALSE, raised |-> "Fail to fetch row"]
    ELSE [value |-> err # MYSQL_NO_DATA, raised |-> ""]

\* A call of nextRow()
NextRow(err) ==
    /\ scalar.pc \in {"idle", "done"}
    /\ LET r == nextRow(err)
       IN  scalar' = [ScalarIdle EXCEPT !.op = "nextRow", !.pc = "done", !.err = err,
                                        !.value = r.value, !.raised = r.raised]
    /\ rows' = <<>>
    /\ UNCHANGED <<connVars, stmtVars, queryVars, lockVars>>

(***************************************************************************)
(* The specifications: the connection; a Statement's binding passes; its   *)
(* long-data transfer; the retry loops.                                    *)
(***************************************************************************)
Init == InitConn /\ InitStmt /\ InitQuery /\ InitLock /\ InitScalar

SpecConn == Init /\ [][NextConn]_vars

\* The buffer lengths a binder sets in SpecBind: a short one, and a long one
\* that goes out in two chunks
BindLengths == {8, FallbackPacketBytes \div 2 + 1}

NextBind ==
    \/ \E count \in 0..MaxBind : \E w \in WritesOf(count, BindLengths) :
            BindParams(count, w) /\ UNCHANGED <<connVars, queryVars, lockVars, scalarVars>>
    \/ \E ans \in {Answer("norow", 0), Answer("error", 0)}, bound \in BOOLEAN :
            ScanParam(ans, bound) /\ UNCHANGED <<connVars, queryVars, lockVars, scalarVars>>
    \/ \E ans \in {Answer("norow", 0), Answer("error", 0)} :
            StartLongParam(ans) /\ UNCHANGED <<connVars, queryVars, lockVars, scalarVars>>
    \/ \E ok \in BOOLEAN :
            SendLongData(ok) /\ UNCHANGED <<connVars, queryVars, lockVars, scalarVars>>
    \/ StartExec("execBindResults") /\ UNCHANGED <<connVars, queryVars, lockVars, scalarVars>>
    \/ \E code \in {ER_LOCK_DEADLOCK, 1062} :
            Execute(code, 0, <<>>, TRUE) /\ UNCHANGED <<connVars, queryVars, lockVars, scalarVars>>
    \/ \E count \in 0..MaxBind, bound \in BOOLEAN :
            \E w \in WritesOf(count, BindLengths) :
                Execute(0, count, w, bound) /\ UNCHANGED <<connVars, queryVars, lockVars, scalarVars>>

SpecBind == Init /\ [][NextBind]_vars

\* The buffer lengths of SpecChunk: within every chunk limit, just above one,
\* three limits and a byte, the largest an unsigned holds, and one beyond
ChunkLengths ==
    {FallbackPacketBytes \div 4, FallbackPacketBytes \div 2 + 1,
     3 * (FallbackPacketBytes \div 2) + 1, UnsignedMod - 1, UnsignedMod + 5}

\* The answers to "select @@max_allowed_packet" of SpecChunk: none, NULL, a
\* value that is no multiple of 1024, and a valid one
PacketAnswers ==
    {Answer("error", 0), Answer("norow", 0), Answer("null", 0),
     Answer("value", 1000), Answer("value", FallbackPacketBytes \div 2)}

NextChunk ==
    \/ \E count \in 1..MaxBind : \E w \in WritesOf(count, ChunkLengths) :
            BindParams(count, w) /\ UNCHANGED <<connVars, queryVars, lockVars, scalarVars>>
    \/ \E ans \in PacketAnswers, bound \in BOOLEAN :
            ScanParam(ans, bound) /\ UNCHANGED <<connVars, queryVars, lockVars, scalarVars>>
    \/ \E ans \in PacketAnswers :
            StartLongParam(ans) /\ UNCHANGED <<connVars, queryVars, lockVars, scalarVars>>
    \/ \E ok \in BOOLEAN :
            SendLongData(ok) /\ UNCHANGED <<connVars, queryVars, lockVars, scalarVars>>

SpecChunk == Init /\ [][NextChunk]_vars

NextRetry ==
    \/ QueryCall
    \/ \E errno \in ErrorCodes : QuerySubmit(errno)
    \/ \E op \in {"execNoThrow", "exec"} :
            StartExec(op) /\ UNCHANGED <<connVars, queryVars, lockVars, scalarVars>>
    \/ \E code \in ErrorCodes :
            Execute(code, 0, <<>>, TRUE) /\ UNCHANGED <<connVars, queryVars, lockVars, scalarVars>>

SpecRetry == Init /\ [][NextRetry]_vars

\* The server eventually answers an attempt of query() with success or with a
\* code query() does not resubmit on
QueryAnsweredFinally ==
    \E errno \in {0, 1062, 1064} : QuerySubmit(errno)

\* The server eventually answers an attempt of execNoThrow() with success or
\* with a code execNoThrow() does not re-execute on
ExecAnsweredFinally ==
    \E code \in {0, ER_LOCK_WAIT_TIMEOUT, 1062, 1064} :
        Execute(code, 0, <<>>, TRUE) /\ UNCHANGED <<connVars, queryVars, lockVars, scalarVars>>

\* SpecRetry with a server that does not answer transient codes for ever
SpecRetryFair ==
    SpecRetry /\ WF_vars(QueryAnsweredFinally) /\ WF_vars(ExecAnsweredFinally)

\* The lock object on a connection whose sessions come and go
NextLock ==
    \/ \E table \in Tables : AddRead(table)
    \/ \E table \in Tables : AddWrite(table)
    \/ \E table \in Tables : Remove(table)
    \/ RemoveAll
    \/ \E in \in QueryInputs : Lock(in)
    \/ \E in \in QueryInputs : LockAllRead(in)
    \/ \E in \in QueryInputs : Unlock(in)
    \/ \E in \in QueryInputs : Destroy(in)
    \/ NewScope

SpecLock == Init /\ [][NextLock]_vars

\* The lock object on a connection whose session the library may replace
\* between two calls
NextLockConn ==
    \/ NextLock
    \/ AutoReconnect

SpecLockConn == Init /\ [][NextLockConn]_vars

NextScalar ==
    \/ \E ok \in BOOLEAN, result \in ResultSets : QueryString(ok, result)
    \/ FetchRow
    \/ \E err \in FetchOutcomes : NextRow(err)

SpecScalar == Init /\ [][NextScalar]_vars

(***************************************************************************)
(* The claims about the connection lifecycle, under SpecConn.              *)
(***************************************************************************)
\* C1: whenever stmt() returns a Statement, it is the owned Statement and it was
\* created on the connection's current native handle and on that handle's
\* current server thread id; a Statement of an earlier session or handle is
\* never the one returned.
C1_StmtOnCurrentSession ==
    (ret.op = "stmt" /\ ret.raised = "") =>
        /\ ret.stmt # NoStmt
        /\ ret.stmt = m_pstmt
        /\ m_mysql \in DOMAIN session
        /\ ret.stmt.mysql = m_mysql
        /\ ret.stmt.session = session[m_mysql]

\* C1's case: stmt() returns while the connection held a Statement of a session
\* the server has replaced since, on the same handle
C1_Witness ==
    /\ ret.op = "stmt" /\ ret.raised = ""
    /\ ret.before.m_pstmt # NoStmt
    /\ ret.before.m_mysql = m_mysql
    /\ ret.before.m_pstmt.session # session[m_mysql]

\* C2: a handle mysql() returns is non-null and open, and either it is the
\* handle that passed the probe of this call or it is a handle created by the
\* connect that succeeded in this call; the handle whose probe failed in this
\* call is not returned.
C2_ReturnedHandleLive ==
    (ret.op = "mysql" /\ ret.raised = "") =>
        /\ ret.value # 0
        /\ ret.value = m_mysql
        /\ ret.value \in DOMAIN session
        /\ session[ret.value] # 0
        /\ \/ ret.probe = "ok" /\ ret.connect = "none" /\ ret.value = ret.before.m_mysql
           \/ ret.connect = "ok" /\ ret.value \notin DOMAIN ret.before.session
        /\ ret.probe = "fail" => ret.value # ret.before.m_mysql

\* C2's case: the probe of this call failed and mysql() returned the handle of
\* the connect that followed
C2_Witness ==
    /\ ret.op = "mysql" /\ ret.raised = ""
    /\ ret.probe = "fail" /\ ret.connect = "ok"
    /\ ret.value # 0

\* C3: in every state, also after a call that raised, a non-null native handle
\* comes with a cached thread id equal to the one observed at the most recent
\* successful probe or connect on that handle.
C3_ThreadIdOfLastProbeOrConnect ==
    m_mysql # 0 => m_threadID = observed

\* C4: threadId() returns the current server thread id of the connection's
\* handle, also when the server has given the handle a new session since the
\* last mysql(). Stated for a connection whose cached id is the one seen at its
\* last successful probe or connect, so that a call that raised earlier is not
\* what decides it.
C4_ThreadIdIsCurrent ==
    (ret.op = "threadId" /\ ret.raised = "" /\ m_threadID = observed) =>
        /\ m_mysql \in DOMAIN session
        /\ ret.value = session[m_mysql]

\* C5: when a step of connect_() fails after mysql_init(), the new handle has
\* been released when the error is raised, and the connection holds neither a
\* native handle nor a Statement.
C5_FailedConnectReleasesHandle ==
    ret.connect \in {"charset_fail", "reconnect_opt_fail", "connect_fail", "sql_mode_fail"} =>
        /\ ret.raised # ""
        /\ m_mysql = 0
        /\ m_pstmt = NoStmt
        /\ DOMAIN session = {}

(***************************************************************************)
(* The claims about the binding array, under SpecBind.                     *)
(***************************************************************************)
\* C6 as stated: over any sequence of binding passes, with any counts including
\* 0, m_bindSizeLimit never decreases.
C6_CapacityNeverDecreases ==
    [][m_bindSizeLimit' >= m_bindSizeLimit]_vars

\* C6 as amended: m_bindSizeLimit never decreases in a pass whose count is not
\* 0, whatever m_bindSize does; a pass with count 0 frees the array and leaves
\* m_bindSizeLimit 0 as well.
C6_CapacityKeptUnlessCountZero ==
    [][/\ m_bindSize' # 0 => m_bindSizeLimit' >= m_bindSizeLimit
       /\ m_bindSize' = 0 => m_bindSizeLimit' = 0 /\ m_bindArr' = <<>>]_vars

\* C6's case: a pass with a smaller, nonzero count has left the capacity of an
\* earlier pass in place
C6_Witness ==
    /\ call.op \in {"bindParams", "execBindResults"}
    /\ 0 < m_bindSize
    /\ m_bindSize < m_bindSizeLimit
    /\ Len(m_bindArr) = m_bindSizeLimit

\* C7: the binder of bindParams() or execBindResults() is handed m_bindSize
\* descriptors, every one of them all-zero, whatever earlier passes wrote.
C7_BinderSeesZeroedDescriptors ==
    /\ Len(binderSaw) = m_bindSize
    /\ \A k \in 1..Len(binderSaw) : binderSaw[k] = ZeroBind

\* C7's case: the binder was invoked on descriptors that an earlier pass had
\* written to
C7_Witness ==
    /\ call.op \in {"bindParams", "execBindResults"}
    /\ call.stale
    /\ Len(binderSaw) = MaxBind

(***************************************************************************)
(* The claims about long-data transfer, under SpecChunk.                   *)
(***************************************************************************)
\* The chunks sent so far for parameter index p
ChunksOf(p) == SelectSeq(sent, LAMBDA c : c.param = p)

\* ceil(a / b)
CeilDiv(a, b) == (a + b - 1) \div b

\* C8: with a positive chunk limit L, the chunks bindParams() sends for a
\* parameter of length len > L are, in order, the pieces of the buffer at
\* offsets 0, L, 2L, ..., each of at most L bytes and the last one ending at
\* len, ceil(len / L) of them when bindParams() returns; a parameter of length
\* at most L is sent no chunk. (Stated for a limit discovered from an answer
\* that is not NULL, and while the log of chunks is complete.)
C8_ChunksAreTheBuffer ==
    (/\ call.op = "bindParams"
     /\ m_maxPacketBytes > 0
     /\ \A n \in 1..Len(answers) : answers[n].row # "null"
     /\ Len(sent) < MaxChunks) =>
        \A p \in 0..(m_bindSize - 1) :
            LET len == m_bindArr[p + 1].buffer_length
                L == m_maxPacketBytes
                chunks == ChunksOf(p)
            IN  /\ len <= L => chunks = <<>>
                /\ \A k \in 1..Len(chunks) :
                        /\ chunks[k].off = (k - 1) * L
                        /\ chunks[k].off < len
                        /\ chunks[k].bytes = Min(L, len - chunks[k].off)
                /\ (call.pc = "done" /\ call.raised = "" /\ len > L) =>
                        Len(chunks) = CeilDiv(len, L)

\* The chunk limit C9 states for an answer: the server's value halved, or
\* 32768 when there is no row, a NULL, or a value that is no multiple of 1024
C9_StatedLimit(ans) ==
    IF ans.row = "value" /\ ans.value % 1024 = 0 THEN ans.value \div 2 ELSE 32768

\* C9: in a Statement's lifetime the discovery query is answered at most once,
\* and from then on the chunk limit is the stated one for that answer, and
\* greater than zero.
C9_PacketLimitDiscoveredOnce ==
    /\ Len(answers) <= 1
    /\ answers # <<>> =>
            /\ m_maxPacketBytes = C9_StatedLimit(answers[1])
            /\ m_maxPacketBytes > 0

(***************************************************************************)
(* The claims about the retry loops, under SpecRetry.                      *)
(***************************************************************************)
\* The codes mysql_query() ended with in this call of query(), in order
QueryCodes ==
    LET subs == SelectSeq(qlog, LAMBDA e : e.call = "mysql_query")
    IN  [k \in 1..Len(subs) |-> subs[k].errno]

\* C10: query() resubmits only after 1205 or 1213, ends at the first other
\* code and raises exactly that code (returning on 0); execNoThrow() re-executes
\* only after 1213, ends at the first other code and returns it unchanged; exec()
\* raises exactly when that code is not 0.
C10_RetryStopsAtFirstOtherCode ==
    /\ \A k \in 1..(Len(QueryCodes) - 1) : QueryCodes[k] \in {1205, 1213}
    /\ qcall.pc = "Retry" => \A k \in 1..Len(QueryCodes) : QueryCodes[k] \in {1205, 1213}
    /\ qcall.pc = "done" =>
            LET last == QueryCodes[Len(QueryCodes)]
            IN  /\ last \notin {1205, 1213}
                /\ qcall.errno = last
                /\ qcall.raised # "" <=> last # 0
    /\ call.op \in {"execNoThrow", "exec"} =>
            /\ \A k \in 1..(Len(codes) - 1) : codes[k] = 1213
            /\ call.pc = "execute" => \A k \in 1..Len(codes) : codes[k] = 1213
            /\ call.pc = "done" =>
                    LET last == codes[Len(codes)]
                    IN  /\ last # 1213
                        /\ call.result = last
                        /\ call.raised # "" <=> (call.op = "exec" /\ last # 0)

\* C10's case: both loops retried and then ended on a code they do not retry,
\* execNoThrow() on the lock wait timeout
C10_Witness ==
    /\ qcall.pc = "done" /\ qcall.errno = 1062
    /\ Len(QueryCodes) = 3 /\ QueryCodes[1] = 1205 /\ QueryCodes[2] = 1213
    /\ call.op = "execNoThrow" /\ call.pc = "done"
    /\ codes = <<1213, 1205>> /\ call.result = 1205

\* C11: neither path surfaces a transient code: a call of query() does not end
\* by raising 1205 or 1213, and a call of execNoThrow() or exec() does not end
\* by returning or raising 1205 or 1213, the statement path resubmitting on the
\* same codes as the text-query path.
C11_TransientCodesNeverSurface ==
    /\ qcall.pc = "done" => qcall.errno \notin {1205, 1213}
    /\ (call.op \in {"execNoThrow", "exec"} /\ call.pc = "done") =>
            call.result \notin {1205, 1213}

(***************************************************************************)
(* The claims about the lock object, under SpecLock.                       *)
(***************************************************************************)
\* The submissions of the call that were not answered a transient code
Settled(issued) == SelectSeq(issued, LAMBDA e : e.errno \notin {1205, 1213})

\* The texts of the submissions of the call
TextsOf(issued) == {issued[k].sql : k \in 1..Len(issued)}

\* The call sent the one statement sql: every submission carries it, and one
\* submission was answered a code that is not transient
SentOnce(issued, sql) ==
    TextsOf(issued) = {sql} /\ Len(Settled(issued)) = 1

\* C12: a call of lock() with a non-empty spec that returns has sent exactly
\* one statement (resubmitted unchanged after a transient code), a "lock
\* tables" whose items are the entries of the spec, each table once and with
\* its mode, and has set the status LS_BY_SPEC; with an empty spec it sends no
\* "lock tables" and does what unlock() does. After addRead() or addWrite() for
\* a table the spec holds that table with the mode of this call.
C12_LockListsEverySpecEntry ==
    /\ (lret.op = "lock" /\ lret.raised = "" /\ m_spec # NoSpec) =>
            /\ \E sql \in TextsOf(lret.issued) :
                    /\ SentOnce(lret.issued, sql)
                    /\ sql.verb = "lock tables"
                    /\ Len(sql.items) = Cardinality(DOMAIN m_spec)
                    /\ \A t \in DOMAIN m_spec :
                            \E k \in 1..Len(sql.items) :
                                sql.items[k] = [table |-> t, mode |-> m_spec[t]]
            /\ lret.unlocks = 0
            /\ m_state = "LS_BY_SPEC"
    /\ (lret.op = "lock" /\ m_spec = NoSpec) =>
            /\ TextsOf(lret.issued) \subseteq {UnlockSql}
            /\ lret.unlocks = 1
            /\ lret.before = "LS_NONE" =>
                    lret.issued = <<>> /\ lret.raised = "" /\ m_state = "LS_NONE"
            /\ (lret.before # "LS_NONE" /\ lret.raised = "") =>
                    SentOnce(lret.issued, UnlockSql) /\ m_state = "LS_NONE"
    /\ lret.op \in {"addRead", "addWrite"} =>
            /\ lret.table \in DOMAIN m_spec
            /\ m_spec[lret.table] = (IF lret.op = "addRead" THEN "read" ELSE "write")

\* C12's case: lock() has sent, at the second submission, one statement for
\* two tables with different modes; the other case, lock() on a spec emptied
\* while tables were locked, is C12_WitnessEmptySpec
C12_Witness ==
    /\ lret.op = "lock" /\ lret.raised = ""
    /\ m_spec = [t \in Tables |-> IF t = 1 THEN "write" ELSE "read"]
    /\ Len(lret.issued) = 2
    /\ m_state = "LS_BY_SPEC"

C12_WitnessEmptySpec ==
    /\ lret.op = "lock" /\ lret.raised = ""
    /\ m_spec = NoSpec
    /\ lret.before = "LS_BY_SPEC"
    /\ m_state = "LS_NONE"

\* C13: the destructor of the lock object calls unlock() exactly once, and
\* that call sends "unlock tables" exactly when the status at scope exit is
\* not LS_NONE, whatever calls came before and however they ended.
C13_DestructionUnlocks ==
    lret.op = "~C_LockTablesTillEnd" =>
        /\ lret.unlocks = 1
        /\ lret.before # "LS_NONE" <=> UnlockSql \in TextsOf(lret.issued)

\* The calls that change only the pending spec
SpecOps == {"addRead", "addWrite", "remove", "removeAll"}

\* C14: a step of addRead(), addWrite(), remove() or removeAll() sends nothing,
\* leaves every field of the connection and the server's sessions as they
\* were, and leaves the status as it was.
C14_SpecOpsTouchOnlyTheSpec ==
    [][(lret'.op \in SpecOps /\ lockVars' # lockVars) =>
            /\ lret'.issued = <<>>
            /\ lret'.raised = ""
            /\ UNCHANGED <<m_mysql, m_threadID, m_pstmt, session, nextHandle, nextThread>>
            /\ m_state' = m_state
            /\ scope' = scope]_vars

\* C14's case: the spec was emptied while tables were locked on an open
\* handle, and the status stands
C14_Witness ==
    /\ lret.op = "removeAll"
    /\ m_spec = NoSpec
    /\ m_state = "LS_BY_SPEC"
    /\ m_mysql # 0

\* C15: lockAllRead() in status LS_ALL_READ sends nothing and keeps the
\* status, and otherwise sends one "FLUSH TABLES WITH READ LOCK" and sets
\* LS_ALL_READ; unlock() in status LS_NONE sends nothing, and otherwise sends
\* one "unlock tables" and sets LS_NONE. When the call raises, the status is
\* the one before the call.
C15_LockAllReadAndUnlockIdempotent ==
    /\ lret.op = "lockAllRead" =>
            /\ TextsOf(lret.issued) \subseteq {FlushSql}
            /\ lret.before = "LS_ALL_READ" =>
                    lret.issued = <<>> /\ lret.raised = "" /\ m_state = "LS_ALL_READ"
            /\ (lret.before # "LS_ALL_READ" /\ lret.raised = "") =>
                    SentOnce(lret.issued, FlushSql) /\ m_state = "LS_ALL_READ"
    /\ lret.op = "unlock" =>
            /\ TextsOf(lret.issued) \subseteq {UnlockSql}
            /\ lret.unlocks = 1
            /\ lret.before = "LS_NONE" =>
                    lret.issued = <<>> /\ lret.raised = "" /\ m_state = "LS_NONE"
            /\ (lret.before # "LS_NONE" /\ lret.raised = "") =>
                    SentOnce(lret.issued, UnlockSql) /\ m_state = "LS_NONE"
    /\ (lret.op \in {"lockAllRead", "unlock"} /\ lret.raised # "") =>
            /\ m_state = lret.before
            /\ Len(Settled(lret.issued)) <= 1

\* C15's case: lockAllRead() was called while the global read lock was held
C15_Witness ==
    /\ lret.op = "lockAllRead"
    /\ lret.before = "LS_ALL_READ"
    /\ lret.issued = <<>>
    /\ m_mysql # 0

\* C15's other case: the statement of unlock() failed and the status stands
C15_WitnessFailed ==
    /\ lret.op = "unlock"
    /\ lret.raised # ""
    /\ Len(lret.issued) = 1 /\ lret.issued[1].errno = 1064
    /\ m_state = "LS_ALL_READ"

(***************************************************************************)
(* The claims about the scalar helpers, under SpecScalar.                  *)
(***************************************************************************)
\* C16: queryString() returns the value the first row of the result has in the
\* selected column, and the empty string when the result has no row or that
\* value is NULL, whatever rows follow; for a result with no row it returns
\* and does not raise.
C16_QueryStringIsFirstRow ==
    (scalar.op = "queryString" /\ scalar.pc = "done" /\ scalar.raised = "") =>
        scalar.ret = (IF scalar.result = <<>> \/ scalar.result[1].null
                      THEN "" ELSE scalar.result[1].s)

\* C17 as stated: nextRow() returns false exactly when the fetch reports the
\* end of data, returns true when a row was fetched without problem, and
\* raises for every other outcome of the fetch, the error and the truncation
\* report alike.
C17_EveryOtherFetchOutcomeRaises ==
    scalar.op = "nextRow" =>
        /\ (scalar.raised = "" /\ ~scalar.value) <=> scalar.err = MYSQL_NO_DATA
        /\ scalar.err = 0 => (scalar.raised = "" /\ scalar.value)
        /\ scalar.err \notin {0, MYSQL_NO_DATA} => scalar.raised # ""

\* C17 as amended: nextRow() returns false exactly when the fetch reports the
\* end of data, raises exactly when the fetch reports an error (1), and returns
\* true for a fetched row, also when the fetch reports that a column of the
\* row was truncated.
C17_OnlyFetchErrorRaises ==
    scalar.op = "nextRow" =>
        /\ (scalar.raised = "" /\ ~scalar.value) <=> scalar.err = MYSQL_NO_DATA
        /\ scalar.raised # "" <=> scalar.err = FetchError
        /\ scalar.err \in {0, MYSQL_DATA_TRUNCATED} => (scalar.raised = "" /\ scalar.value)

\* C17's case: the fetch reported a truncated column and nextRow() returned
\* true
C17_Witness ==
    /\ scalar.op = "nextRow"
    /\ scalar.err = MYSQL_DATA_TRUNCATED
    /\ scalar.raised = "" /\ scalar.value

(***************************************************************************)
(* More claims about the retry loops, under SpecRetry and SpecRetryFair.   *)
(***************************************************************************)
\* C18 as stated: in a call of query() every submission of the text, the first
\* and every resubmission, comes right after a drain of the pending results.
C18_DrainBeforeEveryAttempt ==
    \A k \in 1..Len(qlog) :
        qlog[k].call = "mysql_query" => (k > 1 /\ qlog[k - 1].call = "flushResults")

\* C18 as amended: a call of query() drains the pending results once, before
\* its first submission; a resubmission follows the failed submission with no
\* drain in between.
C18_DrainOncePerCall ==
    qcall.pc # "idle" =>
        /\ qlog # <<>>
        /\ qlog[1].call = "flushResults"
        /\ \A k \in 2..Len(qlog) : qlog[k].call = "mysql_query"

\* C18's case: query() has resubmitted the text
C18_Witness ==
    /\ qcall.pc = "Retry"
    /\ Len(qlog) = 3
    /\ qlog[2] = [call |-> "mysql_query", errno |-> 1213]
    /\ qlog[3] = [call |-> "mysql_query", errno |-> 1205]

\* C19: a call of query(), execNoThrow() or exec() in its retry loop ends once
\* the server answers an attempt with success or with a code the loop does not
\* retry, which by the fairness of SpecRetryFair it eventually does; and an
\* attempt answered 1213 (or 1205, for query()) never ends the call, so that
\* the call does not return while such answers keep coming.
C19_RetryLoopsEndOnlyByTheServer ==
    /\ (qcall.pc = "Retry") ~> (qcall.pc = "done")
    /\ (call.pc = "execute") ~> (call.pc = "done")
    /\ [][/\ (qcall.pc = "Retry" /\ qlog' # qlog /\ qlog'[Len(qlog')].errno \in {1205, 1213}) =>
                qcall'.pc = "Retry"
          /\ (call.pc = "execute" /\ codes' # codes /\ codes'[Len(codes')] = 1213) =>
                call'.pc = "execute"]_vars

\* C19's case: both loops went round more often than the logs hold and then
\* ended
C19_Witness ==
    /\ qcall.pc = "done" /\ qcall.raised = ""
    /\ Len(qlog) = MaxAttempts + 1
    /\ \A k \in 2..MaxAttempts : qlog[k].errno \in {1205, 1213}
    /\ call.op = "exec" /\ call.pc = "done" /\ call.raised = ""
    /\ Len(codes) = MaxAttempts
    /\ \A k \in 1..(MaxAttempts - 1) : codes[k] = 1213

(***************************************************************************)
(* More claims about the connection lifecycle, under SpecConn.             *)
(***************************************************************************)
\* The positions of the native call name among the steps of the last call
StepsNamed(name) == {k \in 1..Len(ret.steps) : ret.steps[k] = name}

\* C20: in every state a Statement exists only on the connection's native
\* handle, which is non-null and open; and a call that closed the handle of a
\* connection that owned a Statement destroyed the Statement first.
C20_StatementNeverOutlivesHandle ==
    /\ m_pstmt # NoStmt =>
            /\ m_mysql # 0
            /\ m_pstmt.mysql = m_mysql
            /\ m_mysql \in DOMAIN session
    /\ (ret.before.m_pstmt # NoStmt /\ StepsNamed("mysql_close") # {}) =>
            \E j \in StepsNamed("mysql_stmt_close") :
                \A k \in StepsNamed("mysql_close") : j < k

\* C20's case: the probe failed on a connection that owned a Statement, and
\* the reconnect closed the handle and opened another
C20_Witness ==
    /\ ret.op = "mysql" /\ ret.raised = ""
    /\ ret.before.m_pstmt # NoStmt
    /\ ret.probe = "fail" /\ ret.connect = "ok"
    /\ m_pstmt = NoStmt
    /\ ret.before.m_mysql \notin DOMAIN session

\* C21: a call of mysql(), stmt() or threadId() makes at most one connect
\* attempt; an attempt that got its native handle from mysql_init() asks the
\* provider of connection arguments exactly once, after mysql_init() and
\* before the options are set and the connect is issued; an attempt that
\* failed ends the call with an error.
C21_OneConnectAttemptPerCall ==
    ret.op \in {"mysql", "stmt", "threadId"} =>
        /\ Cardinality(StepsNamed("mysql_init")) <= 1
        /\ ret.connect = "none" <=> StepsNamed("mysql_init") = {}
        /\ ret.connect \in {"none", "init_fail"} => StepsNamed("m_getConnArg") = {}
        /\ ret.connect \notin {"none", "init_fail"} =>
                /\ Cardinality(StepsNamed("m_getConnArg")) = 1
                /\ \A g \in StepsNamed("m_getConnArg") :
                        /\ \A k \in StepsNamed("mysql_init") : k < g
                        /\ \A k \in StepsNamed("set_charset") \cup StepsNamed("opt_reconnect")
                                    \cup StepsNamed("mysql_real_connect") : g < k
        /\ ret.connect \notin {"none", "ok"} => ret.raised # ""

\* C21's case: the probe failed, the one connect attempt of the call asked the
\* provider and failed at mysql_real_connect(), and the call raised
C21_Witness ==
    /\ ret.op = "mysql"
    /\ ret.probe = "fail" /\ ret.connect = "connect_fail"
    /\ ret.raised = "Fail to connect"
    /\ StepsNamed("m_getConnArg") # {}

\* C22: whenever the status of the lock object is LS_BY_SPEC or LS_ALL_READ,
\* the matching lock statement is in force on the current session of the
\* connection, and a call of lockAllRead() that returns without error leaves
\* FLUSH TABLES WITH READ LOCK in force on the current session.
C22_LockedStatusIsLockOnCurrentSession ==
    /\ m_state = "LS_BY_SPEC" /\ m_mysql # 0 => sessionLock = "lock tables"
    /\ m_state = "LS_ALL_READ" /\ m_mysql # 0 => sessionLock = FlushSql.verb
    /\ lret.op = "lockAllRead" /\ lret.raised = "" /\ m_state = "LS_ALL_READ" =>
            m_mysql # 0 /\ sessionLock = FlushSql.verb

\* The buffer length of the long parameter the chunk loop is at
LoopLength == m_bindArr[call.longParams[call.k] + 1].buffer_length

\* C23: in every turn of the chunk loop of bindParams() with a positive chunk
\* limit, the chunk sent is the rest of the buffer from the offset on, or a
\* whole chunk limit of it, and the offset the loop goes on with is the old
\* one plus the chunk limit: the counter never wraps, so the offsets grow until
\* the buffer is sent, once, for every length the descriptor can hold.
C23_ChunkOffsetNeverWraps ==
    [][(call.pc = "send" /\ call.step > 0 /\ call.off < LoopLength) =>
            /\ ChunkBytes(LoopLength, call.off, call.step)
                    = Min(call.step, LoopLength - call.off)
            /\ call'.pc = "send" => call'.off = call.off + call.step]_vars

==============================================================================
